---- MODULE Spec2Model ----
(***************************************************************************)
(* State-machine model of the payment-request lifecycle of uni-payment     *)
(* (projectsite/paymentorg): student request creation, officer redemption, *)
(* the expiring status poll, fee-type deletion and bulk posting, run as    *)
(* concurrent request handlers against one read-committed database.        *)
(*                                                                         *)
(* Every handler is a process slot of `proc`.  A handler's database reads  *)
(* and its commit are separate steps, so that other handlers may commit    *)
(* in between, as they can between two statements of a Django view.        *)
(* Money is counted in centavos, time in abstract instants.                *)
(***************************************************************************)
EXTENDS Integers, Sequences, FiniteSets, TLC

(* ------------------------------ bounds --------------------------------- *)
MaxProcs == 2
MaxReq == 2
MaxTime == 1
MaxFee == 3

Procs == 1..MaxProcs
ReqIds == 1..MaxReq

(* --------------------------- static data ------------------------------- *)
\* Organizations of the seed data: one COLLEGE node with two PROGRAM children.
\* The college node collects college-wide (TIER_2) fees, the programs TIER_1.
Orgs == {"ALLORG", "COMSCI", "IT"}

organizations ==
  [o \in Orgs |->
     IF o = "ALLORG"
     THEN [hierarchy_level |-> "COLLEGE", parent |-> "NONE",
           fee_tier |-> "TIER_2", program_affiliation |-> "ALL"]
     ELSE IF o = "COMSCI"
     THEN [hierarchy_level |-> "PROGRAM", parent |-> "ALLORG",
           fee_tier |-> "TIER_1", program_affiliation |-> "COMPUTER_SCIENCE"]
     ELSE [hierarchy_level |-> "PROGRAM", parent |-> "ALLORG",
           fee_tier |-> "TIER_1", program_affiliation |-> "INFORMATION_TECHNOLOGY"]]

child_organizations(o) == {c \in Orgs : organizations[c].parent = o}

\* Organization.get_accessible_organization_ids: a COLLEGE node reaches itself
\* and its PROGRAM children, a PROGRAM node itself only, unless its affiliation
\* is ALL, in which case it fans out to its children as well.
get_accessible_organization_ids(o) ==
  IF organizations[o].hierarchy_level = "COLLEGE"
       \/ organizations[o].program_affiliation = "ALL"
  THEN {o} \cup child_organizations(o)
  ELSE {o}

\* Accounts.  Students carry a Student profile, officers an Officer profile.
Students == {"stu1", "stu2"}
Users == Students \cup {"comsci_officer", "it_officer", "all_org_officer",
                        "old_officer", "admin"}

\* Student rows.  The third student has no course yet and does not act.
NoCourse == "NONE"
StudentRows == Students \cup {"stu3"}

student_profile ==
  [s \in StudentRows |->
     IF s = "stu1"
     THEN [program_type |-> "COMPUTER_SCIENCE", year_level |-> 2, is_active |-> TRUE]
     ELSE IF s = "stu2"
     THEN [program_type |-> "INFORMATION_TECHNOLOGY", year_level |-> 1, is_active |-> TRUE]
     ELSE [program_type |-> NoCourse, year_level |-> 1, is_active |-> TRUE]]

is_superuser(u) == u = "admin"
\* CreateOfficerForm.save marks the account it creates as staff.
is_staff(u) == u = "admin" \/ u = "created_officer"

NoOfficer ==
  [exists |-> FALSE, organization |-> "NONE", is_active |-> FALSE,
   can_void_payments |-> FALSE, can_promote_officers |-> FALSE,
   is_super_officer |-> FALSE]

OfficerRec(o, active, super) ==
  [exists |-> TRUE, organization |-> o, is_active |-> active,
   can_void_payments |-> TRUE, can_promote_officers |-> TRUE,
   is_super_officer |-> super]

InitOfficers ==
  [u \in Users |->
     CASE u = "comsci_officer" -> OfficerRec("COMSCI", TRUE, FALSE)
       [] u = "it_officer" -> OfficerRec("IT", TRUE, FALSE)
       [] u = "all_org_officer" -> OfficerRec("ALLORG", TRUE, TRUE)
       [] u = "old_officer" -> OfficerRec("COMSCI", FALSE, FALSE)
       [] OTHER -> NoOfficer]

(* ------------------------- signature service --------------------------- *)
\* Messages that get signed: the canonical string of a request's UUID, or a
\* 12-character hex token cut from a fresh UUID.  The two never coincide (36
\* characters with dashes against 12 without).
UuidStr(rid) == <<"uuid", rid>>
HexToken(n) == <<"hex12", n>>

\* HMAC-SHA256 under QR_SIGNATURE_KEY, taken as collision free: the digest is
\* determined by the key and the message, and differs for different messages.
QR_SIGNATURE_KEY == "k1"
create_signature(message_string) == <<"hmac", QR_SIGNATURE_KEY, message_string>>
validate_signature(message_string, provided_signature) ==
  create_signature(message_string) = provided_signature

EmptySignature == <<"hmac", "", <<"", 0>>>>
ForgedSignature == <<"hmac", "k0", <<"uuid", 0>>>>

(* ------------------------------ state ---------------------------------- *)
VARIABLES
  now,          \* timezone.now(), in instants
  officers,     \* Officer rows, by account (NoOfficer: no officer_profile)
  user_profile, \* UserProfile rows, by account
  feeTypes,     \* FeeType rows, by primary key
  requests,     \* PaymentRequest rows, by primary key
  payments,     \* Payment rows, by primary key
  receipts,     \* Receipt rows, by the primary key of their Payment
  seq,          \* primary-key sequences of the three tables
  periods,      \* AcademicYearConfig rows, by primary key
  proc,         \* the request handlers in flight
  last          \* the handler that answered last: its inputs and its outcome

vars == <<now, officers, user_profile, feeTypes, requests, payments, receipts,
          seq, periods, proc, last>>

db == <<officers, user_profile, feeTypes, requests, payments, receipts, seq,
        periods>>

\* The academic period the seed data marks current, and the one after it.
current_period == [academic_year |-> "2024-2025", semester |-> "1st Semester"]
next_period == [academic_year |-> "2024-2025", semester |-> "2nd Semester"]

\* The seeded AcademicYearConfig rows; start_date in terms.
InitPeriods ==
  (1 :> [academic_year |-> current_period.academic_year,
         semester |-> current_period.semester,
         start_date |-> 1, is_current |-> TRUE])
    @@ (2 :> [academic_year |-> next_period.academic_year,
              semester |-> next_period.semester,
              start_date |-> 2, is_current |-> FALSE])

\* Student._get_current_period and get_current_period: the row marked
\* current; of several, the one that starts last; 0 when there is none
get_current_period ==
  LET cur == {k \in DOMAIN periods : periods[k].is_current}
  IN IF cur = {} THEN 0
     ELSE CHOOSE k \in cur :
            \A j \in cur : periods[j].start_date <= periods[k].start_date

\* Fee amounts and tendered amounts, in centavos.
FeeAmounts == {15000, 30000}
ReceivedAmounts == {10000, 15000, 20000}
FeeNames == {"Membership", "Library"}

\* applicable_year_levels is free text: "All", or year digits.
LevelAll == <<"A", "l", "l">>
Level1 == <<"1">>
Level2 == <<"2">>
str_year(n) == IF n = 1 THEN <<"1">> ELSE <<"2">>

\* SQL icontains on the texts above (no letters occur in a year digit, so case
\* folding changes nothing): needle occurs as a contiguous substring.
icontains(text, needle) ==
  \E i \in 1..Len(text) :
     /\ i + Len(needle) - 1 <= Len(text)
     /\ SubSeq(text, i, i + Len(needle) - 1) = needle

iexact_all(text) == text = LevelAll

FeeRec(o, n, a, lv) ==
  [organization |-> o, name |-> n, amount |-> a, applicable_year_levels |-> lv,
   is_active |-> TRUE, academic_year |-> current_period.academic_year,
   semester |-> current_period.semester]

Idle == [op |-> "idle", pc |-> "idle", user |-> "none", loc |-> <<>>]
\* voided_at of a Payment that was never voided (NULL)
NotVoided == -1

NoAnswer == [op |-> "none", out |-> "none", loc |-> <<>>]

\* Handler p, running operation o for account u with locals l, moves on to its
\* step pc, or answers with an outcome and ends.
Continue(p, o, u, l, pc) ==
  /\ proc' = [proc EXCEPT ![p] = [op |-> o, pc |-> pc, user |-> u, loc |-> l]]
  /\ UNCHANGED last

Answer(p, o, u, l, outcome) ==
  /\ proc' = [proc EXCEPT ![p] = Idle]
  /\ last' = [op |-> o, out |-> outcome, loc |-> l]

(* --------------------------- model helpers ----------------------------- *)
has_officer_profile(u) == officers[u].exists
has_student_profile(u) == u \in Students

\* StudentRequiredMixin.test_func
StudentRequiredMixin_test_func(u) ==
  has_student_profile(u)
    \/ user_profile[u].is_officer \/ has_officer_profile(u)
    \/ is_superuser(u)

\* OfficerRequiredMixin.test_func
OfficerRequiredMixin_test_func(u) ==
  user_profile[u].is_officer \/ has_officer_profile(u) \/ is_superuser(u)

\* SuperOfficerOrStaffMixin.test_func
SuperOfficerOrStaffMixin_test_func(u) ==
  is_staff(u) \/ (has_officer_profile(u) /\ officers[u].is_super_officer)

\* PaymentRequest.is_expired, on a row as read
is_expired(r) == now > r.expires_at /\ r.status = "PENDING"

\* Student.get_applicable_fees
tier_fees(s, tier) ==
  {f \in DOMAIN feeTypes :
     /\ organizations[feeTypes[f].organization].fee_tier = tier
     /\ tier = "TIER_1" =>
          organizations[feeTypes[f].organization].program_affiliation
            = student_profile[s].program_type
     /\ feeTypes[f].is_active
     /\ feeTypes[f].academic_year = periods[get_current_period].academic_year
     /\ feeTypes[f].semester = periods[get_current_period].semester
     /\ \/ icontains(feeTypes[f].applicable_year_levels,
                     str_year(student_profile[s].year_level))
        \/ iexact_all(feeTypes[f].applicable_year_levels)}

\* Variant: a voided payment still counts as paid
paid_fee_ids_IncludesVoid(s) ==
  {payments[k].fee_type : k \in {j \in DOMAIN payments :
      payments[j].student = s}}

paid_fee_ids(s) ==
  {payments[k].fee_type : k \in {j \in DOMAIN payments :
      /\ payments[j].student = s
      /\ payments[j].status = "COMPLETED"
      /\ ~payments[j].is_void}}

pending_fee_ids(s) ==
  {requests[k].fee_type : k \in {j \in DOMAIN requests :
      requests[j].student = s /\ requests[j].status = "PENDING"}}

get_applicable_fees(s) ==
  IF student_profile[s].program_type = NoCourse THEN {}
  ELSE IF get_current_period = 0 THEN {}
  ELSE (tier_fees(s, "TIER_1") \cup tier_fees(s, "TIER_2"))
          \ (paid_fee_ids(s) \cup pending_fee_ids(s))

HasPendingRequest(s, f) ==
  \E k \in DOMAIN requests :
     requests[k].student = s /\ requests[k].fee_type = f
       /\ requests[k].status = "PENDING"

HasCompletedPayment(s, f) ==
  \E k \in DOMAIN payments :
     payments[k].student = s /\ payments[k].fee_type = f
       /\ payments[k].status = "COMPLETED"

\* str(request_id).replace('-', '').upper()[:12]: twelve of the thirty-two
\* hex digits of the id are kept, so two different ids can share them
Prefix12(rid) == (rid + 1) \div 2
\* f"OR-{str(request_id).replace('-', '').upper()[:12]}"
or_number_of(rid) == <<"OR", Prefix12(rid)>>
\* f"{or_number}-{int(timezone.now().timestamp())}"
with_timestamp(orn, t) == Append(orn, t)

EmptyTable == [x \in {} |-> x]
Extend(f, k, v) == [x \in DOMAIN f \cup {k} |-> IF x = k THEN v ELSE f[x]]
Restrict(f, S) == [x \in S |-> f[x]]

(* ------------------------------- Init ---------------------------------- *)
\* The seeded database: the organizations, accounts and officers above, one
\* program fee and one college fee, no request and no payment yet.
Init ==
  /\ now = 0
  /\ officers = InitOfficers
  /\ user_profile = [u \in Users |-> [is_officer |-> InitOfficers[u].exists]]
  /\ feeTypes = (1 :> FeeRec("COMSCI", "Membership", 15000, LevelAll))
                  @@ (2 :> FeeRec("ALLORG", "Library", 15000, LevelAll))
  /\ requests = EmptyTable
  /\ payments = EmptyTable
  /\ periods = InitPeriods
  /\ receipts = EmptyTable
  /\ seq = [fee |-> 3, req |-> 1, pay |-> 1]
  /\ proc = [p \in Procs |-> Idle]
  /\ last = NoAnswer

(* --------------- GenerateQRPaymentView (student, form path) ------------ *)
\* The form accepts only a fee of the student's applicable set, read when the
\* POST is validated.
CreateFormValidate(p, u, f) ==
  /\ proc[p].op = "idle"
  /\ has_student_profile(u)
  /\ StudentRequiredMixin_test_func(u)
  /\ IF f \in get_applicable_fees(u)
     THEN Continue(p, "create_form", u, [fee |-> f, fee_row |-> feeTypes[f]],
                   "dup_check")
     ELSE Answer(p, "create_form", u, [fee |-> f], "InvalidChoice")
  /\ UNCHANGED <<now, db>>

\* form_valid: the duplicate check
CreateFormCheck(p) ==
  /\ proc[p].op = "create_form" /\ proc[p].pc = "dup_check"
  /\ IF HasPendingRequest(proc[p].user, proc[p].loc.fee)
          \/ HasCompletedPayment(proc[p].user, proc[p].loc.fee)
     THEN Answer(p, "create_form", proc[p].user, [fee |-> proc[p].loc.fee],
                 "DuplicateFeeRequest")
     ELSE Continue(p, "create_form", proc[p].user, proc[p].loc, "commit")
  /\ UNCHANGED <<now, db>>

NewRequest(s, f, row, sig, exp) ==
  [student |-> s, organization |-> row.organization, fee_type |-> f,
   amount |-> row.amount, status |-> "PENDING", qr_signature |-> sig,
   expires_at |-> exp, paid_at |-> -1]

\* form_valid: qr_signature = create_signature(str(payment_request.request_id))
FormSignature(rid) == create_signature(UuidStr(rid))

\* form_valid: payment_request.save() and the commit of the atomic block.  The
\* insert fails on its foreign key when the fee type is gone by then.
CreateFormCommit(p) ==
  /\ proc[p].op = "create_form" /\ proc[p].pc = "commit"
  /\ seq.req <= MaxReq
  /\ IF proc[p].loc.fee \in DOMAIN feeTypes
     THEN /\ requests' = Extend(requests, seq.req,
                 NewRequest(proc[p].user, proc[p].loc.fee, proc[p].loc.fee_row,
                            FormSignature(seq.req), now))
          /\ seq' = [seq EXCEPT !.req = @ + 1]
          /\ Answer(p, "create_form", proc[p].user,
                    [fee |-> proc[p].loc.fee, rid |-> seq.req], "Created")
     ELSE /\ Answer(p, "create_form", proc[p].user, [fee |-> proc[p].loc.fee],
                    "IntegrityError")
          /\ UNCHANGED <<requests, seq>>
  /\ UNCHANGED <<now, periods, officers, user_profile, feeTypes, payments, receipts>>

(* ---------------- QuickGenerateQRView (student, quick path) ------------ *)
\* Values of uuid.uuid4().hex[:12]
HexTokens == {1}

QuickValidate(p, u, f) ==
  /\ proc[p].op = "idle"
  /\ has_student_profile(u)
  /\ StudentRequiredMixin_test_func(u)
  /\ IF ~(f \in DOMAIN feeTypes /\ feeTypes[f].is_active)
     THEN Answer(p, "create_quick", u, [fee |-> f], "Error")
     ELSE IF f \notin get_applicable_fees(u)
     THEN Answer(p, "create_quick", u, [fee |-> f], "NotApplicable")
     ELSE Continue(p, "create_quick", u, [fee |-> f, fee_row |-> feeTypes[f]],
                   "dup_check")
  /\ UNCHANGED <<now, db>>

QuickCheck(p) ==
  /\ proc[p].op = "create_quick" /\ proc[p].pc = "dup_check"
  /\ IF HasPendingRequest(proc[p].user, proc[p].loc.fee)
     THEN Answer(p, "create_quick", proc[p].user, [fee |-> proc[p].loc.fee],
                 "DuplicateFeeRequest")
     ELSE IF HasCompletedPayment(proc[p].user, proc[p].loc.fee)
     THEN Answer(p, "create_quick", proc[p].user, [fee |-> proc[p].loc.fee],
                 "DuplicateFeeRequest")
     ELSE Continue(p, "create_quick", proc[p].user, proc[p].loc, "commit")
  /\ UNCHANGED <<now, db>>

\* PaymentRequest.objects.create(..., qr_signature=create_signature(uuid.uuid4().hex[:12]))
QuickSignature(rid, k) == create_signature(HexToken(k))

QuickCommit(p) ==
  /\ proc[p].op = "create_quick" /\ proc[p].pc = "commit"
  /\ seq.req <= MaxReq
  /\ IF proc[p].loc.fee \in DOMAIN feeTypes
     THEN /\ \E k \in HexTokens :
               requests' = Extend(requests, seq.req,
                 NewRequest(proc[p].user, proc[p].loc.fee, proc[p].loc.fee_row,
                            QuickSignature(seq.req, k), now))
          /\ seq' = [seq EXCEPT !.req = @ + 1]
          /\ Answer(p, "create_quick", proc[p].user,
                    [fee |-> proc[p].loc.fee, rid |-> seq.req], "Created")
     ELSE /\ Answer(p, "create_quick", proc[p].user, [fee |-> proc[p].loc.fee],
                    "Error")
          /\ UNCHANGED <<requests, seq>>
  /\ UNCHANGED <<now, periods, officers, user_profile, feeTypes, payments, receipts>>

(* ------------------ ProcessPaymentRequestView (officer) ---------------- *)
\* OfficerPaymentProcessForm.clean_amount_received: TRUE iff the form is valid
clean_amount_received(fee_amount, amount_received) ==
  ~(fee_amount # 0 /\ amount_received < fee_amount)

\* Variant: the status of the request is looked at before its signature
get_payment_request_StatusFirst(u, rid, signature, amount_received) ==
  IF rid \notin DOMAIN requests THEN "NotFound"
  ELSE IF requests[rid].status # "PENDING" THEN "AlreadyProcessed"
  ELSE IF ~validate_signature(UuidStr(rid), signature) THEN "InvalidSignature"
  ELSE IF ~is_superuser(u) /\ ~has_officer_profile(u) THEN "NotAnOfficer"
  ELSE IF ~is_superuser(u)
          /\ requests[rid].organization
               \notin get_accessible_organization_ids(officers[u].organization)
       THEN "WrongOrganization"
  ELSE IF ~clean_amount_received(requests[rid].amount, amount_received)
       THEN "InsufficientAmount"
  ELSE "ok"

\* Variant: the organization of the officer is not compared with the request's
get_payment_request_NoScope(u, rid, signature, amount_received) ==
  IF rid \notin DOMAIN requests THEN "NotFound"
  ELSE IF ~validate_signature(UuidStr(rid), signature) THEN "InvalidSignature"
  ELSE IF ~is_superuser(u) /\ ~has_officer_profile(u) THEN "NotAnOfficer"
  ELSE IF requests[rid].status # "PENDING" THEN "AlreadyProcessed"
  ELSE IF ~clean_amount_received(requests[rid].amount, amount_received)
       THEN "InsufficientAmount"
  ELSE "ok"

\* Variant: a PENDING request past its expires_at is rejected as expired
get_payment_request_ChecksExpiry(u, rid, signature, amount_received) ==
  IF rid \notin DOMAIN requests THEN "NotFound"
  ELSE IF ~validate_signature(UuidStr(rid), signature) THEN "InvalidSignature"
  ELSE IF ~is_superuser(u) /\ ~has_officer_profile(u) THEN "NotAnOfficer"
  ELSE IF ~is_superuser(u)
          /\ requests[rid].organization
               \notin get_accessible_organization_ids(officers[u].organization)
       THEN "WrongOrganization"
  ELSE IF requests[rid].status # "PENDING" THEN "AlreadyProcessed"
  ELSE IF is_expired(requests[rid]) THEN "Expired"
  ELSE IF ~clean_amount_received(requests[rid].amount, amount_received)
       THEN "InsufficientAmount"
  ELSE "ok"

\* get_payment_request followed by form.is_valid(): "ok", or the rejection.
get_payment_request(u, rid, signature, amount_received) ==
  IF rid \notin DOMAIN requests THEN "NotFound"
  ELSE IF ~validate_signature(UuidStr(rid), signature) THEN "InvalidSignature"
  ELSE IF ~is_superuser(u) /\ ~has_officer_profile(u) THEN "NotAnOfficer"
  ELSE IF ~is_superuser(u)
          /\ requests[rid].organization
               \notin get_accessible_organization_ids(officers[u].organization)
       THEN "WrongOrganization"
  ELSE IF requests[rid].status # "PENDING" THEN "AlreadyProcessed"
  ELSE IF ~clean_amount_received(requests[rid].amount, amount_received)
       THEN "InsufficientAmount"
  ELSE "ok"

RedeemStart(p, u, rid, signature, amount_received) ==
  /\ proc[p].op = "idle"
  /\ LET l == [rid |-> rid]
         res == get_payment_request(u, rid, signature, amount_received)
     IN IF ~OfficerRequiredMixin_test_func(u)
        THEN Answer(p, "redeem", u, l, "PermissionDenied")
        ELSE IF res # "ok"
        THEN Answer(p, "redeem", u, l, res)
        ELSE Continue(p, "redeem", u,
                      [rid |-> rid, sig |-> signature, recv |-> amount_received,
                       snap |-> requests[rid],
                       officer |-> IF has_officer_profile(u) THEN u ELSE "NONE"],
                      "or_check")
  /\ UNCHANGED <<now, db>>

\* post: the lookup of the derived receipt number among the payments
RedeemOrCheck(p) ==
  /\ proc[p].op = "redeem" /\ proc[p].pc = "or_check"
  /\ LET orn == or_number_of(proc[p].loc.rid)
         used == \E k \in DOMAIN payments : payments[k].or_number = orn
     IN Continue(p, "redeem", proc[p].user,
                 [rid |-> proc[p].loc.rid, sig |-> proc[p].loc.sig,
                  recv |-> proc[p].loc.recv, snap |-> proc[p].loc.snap,
                  officer |-> proc[p].loc.officer,
                  or_number |-> IF used THEN with_timestamp(orn, now) ELSE orn],
                 "commit")
  /\ UNCHANGED <<now, db>>

\* Variant: the change is taken the wrong way round
Payment_save_Reversed(row) ==
  IF row.amount_received # 0 /\ row.amount # 0
  THEN [row EXCEPT !.change_given = row.amount - row.amount_received]
  ELSE row

\* Payment.save: the change is computed from the two amounts
Payment_save(row) ==
  IF row.amount_received # 0 /\ row.amount # 0
  THEN [row EXCEPT !.change_given = row.amount_received - row.amount]
  ELSE row

\* Variant: the Payment takes the amount the fee type has at redemption
NewPayment_CurrentFee(rid, snap, amount_received, orn, officer) ==
  Payment_save(
    [payment_request |-> rid, student |-> snap.student,
     organization |-> snap.organization, fee_type |-> snap.fee_type,
     amount |-> feeTypes[snap.fee_type].amount,
     amount_received |-> amount_received,
     change_given |-> 0, or_number |-> orn, status |-> "COMPLETED",
     is_void |-> FALSE, processed_by |-> officer,
     void_reason |-> "", voided_by |-> "NONE", voided_at |-> NotVoided])

NewPayment(rid, snap, amount_received, orn, officer) ==
  Payment_save(
    [payment_request |-> rid, student |-> snap.student,
     organization |-> snap.organization, fee_type |-> snap.fee_type,
     amount |-> snap.amount, amount_received |-> amount_received,
     change_given |-> 0, or_number |-> orn, status |-> "COMPLETED",
     is_void |-> FALSE, processed_by |-> officer,
     void_reason |-> "", voided_by |-> "NONE", voided_at |-> NotVoided])

\* PaymentRequest.mark_as_paid: save() writes the whole row as it was read
mark_as_paid(snap) == [snap EXCEPT !.status = "PAID", !.paid_at = now]

\* Variant: or_number is declared without unique=True
PaymentInsertFails_NoUniqueNumber(rid, snap, orn) ==
  \/ rid \notin DOMAIN requests
  \/ snap.fee_type \notin DOMAIN feeTypes
  \/ \E k \in DOMAIN payments : payments[k].payment_request = rid

\* The unique and foreign-key constraints of the Payment insert
PaymentInsertFails(rid, snap, orn) ==
  \/ rid \notin DOMAIN requests
  \/ snap.fee_type \notin DOMAIN feeTypes
  \/ \E k \in DOMAIN payments : payments[k].payment_request = rid
  \/ \E k \in DOMAIN payments : payments[k].or_number = orn

\* post: Payment insert, mark_as_paid, Receipt insert, commit of the atomic block
RedeemCommit(p) ==
  /\ proc[p].op = "redeem" /\ proc[p].pc = "commit"
  /\ LET l == proc[p].loc
         a == [rid |-> l.rid]
     IN IF PaymentInsertFails(l.rid, l.snap, l.or_number)
        THEN /\ Answer(p, "redeem", proc[p].user, a, "IntegrityError")
             /\ UNCHANGED <<requests, payments, receipts, seq>>
        ELSE /\ payments' = Extend(payments, seq.pay,
                    NewPayment(l.rid, l.snap, l.recv, l.or_number, l.officer))
             /\ requests' = [requests EXCEPT ![l.rid] = mark_as_paid(l.snap)]
             /\ receipts' = Extend(receipts, seq.pay,
                    [or_number |-> l.or_number,
                     verification_signature |-> create_signature(l.or_number)])
             /\ seq' = [seq EXCEPT !.pay = @ + 1]
             /\ Answer(p, "redeem", proc[p].user, a, "Success")
  /\ UNCHANGED <<now, periods, officers, user_profile, feeTypes>>

(* ----------------------- PaymentRequestStatusAPI ----------------------- *)
PollRead(p, u, rid) ==
  /\ proc[p].op = "idle"
  /\ IF ~has_student_profile(u)
     THEN Answer(p, "poll", u, [rid |-> rid], "NOT_STUDENT")
     ELSE IF rid \notin DOMAIN requests \/ requests[rid].student # u
     THEN Answer(p, "poll", u, [rid |-> rid], "NOT_FOUND")
     ELSE IF requests[rid].status = "PENDING" /\ is_expired(requests[rid])
     THEN Continue(p, "poll", u, [rid |-> rid, snap |-> requests[rid]], "save")
     ELSE Answer(p, "poll", u, [rid |-> rid], requests[rid].status)
  /\ UNCHANGED <<now, db>>

\* payment_request.status = 'EXPIRED'; payment_request.save()
PollSave(p) ==
  /\ proc[p].op = "poll" /\ proc[p].pc = "save"
  /\ LET l == proc[p].loc
     IN IF l.rid \in DOMAIN requests
        THEN /\ requests' = [requests EXCEPT
                               ![l.rid] = [l.snap EXCEPT !.status = "EXPIRED"]]
             /\ Answer(p, "poll", proc[p].user, [rid |-> l.rid], "EXPIRED")
        ELSE /\ Answer(p, "poll", proc[p].user, [rid |-> l.rid], "IntegrityError")
             /\ UNCHANGED requests
  /\ UNCHANGED <<now, periods, officers, user_profile, feeTypes, payments, receipts, seq>>

(* --------------------------- FeeTypeDeleteView ------------------------- *)
\* get_queryset: staff see every fee type, a super officer those of the
\* organizations accessible from its own
FeeTypeVisible(u, f) ==
  /\ f \in DOMAIN feeTypes
  /\ \/ is_staff(u)
     \/ ~has_officer_profile(u)
     \/ feeTypes[f].organization
          \in get_accessible_organization_ids(officers[u].organization)

\* form_valid, first half: the pending requests of the fee type are cancelled
FeeDeleteCancel(p, u, f) ==
  /\ proc[p].op = "idle"
  /\ IF ~SuperOfficerOrStaffMixin_test_func(u)
     THEN Answer(p, "fee_delete", u, [fee |-> f], "PermissionDenied")
          /\ UNCHANGED requests
     ELSE IF ~FeeTypeVisible(u, f)
     THEN Answer(p, "fee_delete", u, [fee |-> f], "NotFound")
          /\ UNCHANGED requests
     ELSE /\ requests' =
               [k \in DOMAIN requests |->
                  IF requests[k].fee_type = f /\ requests[k].status = "PENDING"
                  THEN [requests[k] EXCEPT !.status = "CANCELLED"]
                  ELSE requests[k]]
          /\ Continue(p, "fee_delete", u, [fee |-> f], "delete")
  /\ UNCHANGED <<now, periods, officers, user_profile, feeTypes, payments, receipts, seq>>

\* form_valid, second half: DeleteView deletes the fee type, and the rows that
\* reference it go with it (on_delete=CASCADE)
FeeDeleteCascade(p) ==
  /\ proc[p].op = "fee_delete" /\ proc[p].pc = "delete"
  /\ LET f == proc[p].loc.fee
         keepPay == {k \in DOMAIN payments : payments[k].fee_type # f}
     IN /\ feeTypes' = Restrict(feeTypes, DOMAIN feeTypes \ {f})
        /\ requests' = Restrict(requests,
                          {k \in DOMAIN requests : requests[k].fee_type # f})
        /\ payments' = Restrict(payments, keepPay)
        /\ receipts' = Restrict(receipts, keepPay)
        /\ Answer(p, "fee_delete", proc[p].user, [fee |-> f], "Deleted")
  /\ UNCHANGED <<now, periods, officers, user_profile, seq>>

(* -------------------------- FeeTypeUpdateView -------------------------- *)
\* UpdateView: the FeeTypeForm writes the amount of a fee type in the queryset
FeeTypeUpdate(p, u, f, amount) ==
  /\ proc[p].op = "idle"
  /\ IF ~SuperOfficerOrStaffMixin_test_func(u)
     THEN Answer(p, "fee_update", u, [fee |-> f], "PermissionDenied")
          /\ UNCHANGED feeTypes
     ELSE IF ~FeeTypeVisible(u, f)
     THEN Answer(p, "fee_update", u, [fee |-> f], "NotFound")
          /\ UNCHANGED feeTypes
     ELSE /\ feeTypes' = [feeTypes EXCEPT ![f].amount = amount]
          /\ Answer(p, "fee_update", u, [fee |-> f], "Updated")
  /\ UNCHANGED <<now, periods, officers, user_profile, requests, payments, receipts, seq>>

(* -------------------------------- time --------------------------------- *)
Tick ==
  /\ now < MaxTime
  /\ now' = now + 1
  /\ UNCHANGED <<db, proc, last>>

(* ------------------------- PostBulkPaymentView ------------------------- *)
\* normalize_program_affiliation, on the affiliations of the organizations
normalize_program_affiliation(affiliation) ==
  CASE affiliation \in {"COMSCI", "CS", "COMPUTER_SCIENCE"} -> "COMPUTER_SCIENCE"
    [] affiliation = "IT" \/ affiliation = "INFORMATION_TECHNOLOGY"
         -> "INFORMATION_TECHNOLOGY"
    [] OTHER -> "None"

\* PostBulkPaymentView.get_organization; Organization.objects.first() follows
\* the ordering (fee_tier, name)
get_organization(u) ==
  IF has_officer_profile(u) THEN officers[u].organization
  ELSE IF is_superuser(u) THEN "COMSCI"
  ELSE "NONE"

\* program types of the child organizations with a concrete affiliation
eligible_programs(o) ==
  {normalize_program_affiliation(organizations[c].program_affiliation) :
     c \in {d \in child_organizations(o) :
              organizations[d].program_affiliation # "ALL"}} \ {"None"}

\* post: the active students in the scope of the organization
students_in_scope(o) ==
  LET active == {s \in Students : student_profile[s].is_active}
      progs == eligible_programs(o)
  IN IF organizations[o].hierarchy_level = "PROGRAM"
     THEN IF organizations[o].program_affiliation = "ALL"
          THEN IF progs # {}
               THEN {s \in active : student_profile[s].program_type \in progs}
               ELSE active
          ELSE {s \in active :
                  student_profile[s].program_type
                    = normalize_program_affiliation(
                        organizations[o].program_affiliation)}
     ELSE IF progs # {}
          THEN {s \in active : student_profile[s].program_type \in progs}
          ELSE {}

\* FeeType.objects.get_or_create lookup: the row of the unique key, or 0
fee_of_key(o, n) ==
  LET S == {f \in DOMAIN feeTypes :
              /\ feeTypes[f].organization = o
              /\ feeTypes[f].name = n
              /\ feeTypes[f].academic_year = current_period.academic_year
              /\ feeTypes[f].semester = current_period.semester}
  IN IF S = {} THEN 0 ELSE CHOOSE f \in S : TRUE

\* Variant: a student with any Payment for the fee, void or not, is left out
bulk_students_AnyPayment(o, f, level) ==
  LET paid == {payments[k].student : k \in {j \in DOMAIN payments :
                 payments[j].fee_type = f}}
      pending == {requests[k].student : k \in {j \in DOMAIN requests :
                 requests[j].fee_type = f /\ requests[j].status = "PENDING"}}
  IN {s \in students_in_scope(o) :
        /\ level # LevelAll => str_year(student_profile[s].year_level) = level
        /\ s \notin paid \cup pending}

\* post: the students left after the year-level filter and the exclusion of
\* those who paid the fee or hold a pending request for it
bulk_students(o, f, level) ==
  LET paid == {payments[k].student : k \in {j \in DOMAIN payments :
                 /\ payments[j].fee_type = f
                 /\ payments[j].status = "COMPLETED"
                 /\ ~payments[j].is_void}}
      pending == {requests[k].student : k \in {j \in DOMAIN requests :
                 requests[j].fee_type = f /\ requests[j].status = "PENDING"}}
  IN {s \in students_in_scope(o) :
        /\ level # LevelAll => str_year(student_profile[s].year_level) = level
        /\ s \notin paid \cup pending}

\* timedelta(days=30), in instants
ThirtyDays == 30

\* Variant: get_or_create alone, an existing fee type keeps its amount
BulkFeeWrite_KeepsAmount(o, n, amount, level) ==
  LET f == fee_of_key(o, n)
  IN IF f = 0
     THEN Extend(feeTypes, seq.fee, FeeRec(o, n, amount, level))
     ELSE feeTypes

\* the fee type as get_or_create and the update leave it
BulkFeeWrite(o, n, amount, level) ==
  LET f == fee_of_key(o, n)
  IN IF f = 0
     THEN Extend(feeTypes, seq.fee, FeeRec(o, n, amount, level))
     ELSE [feeTypes EXCEPT ![f].amount = amount,
                           ![f].applicable_year_levels = level]

\* Students in the order of the queryset (Meta.ordering)
StudentOrder == <<"stu1", "stu2">>
OrderedTargets(S) == SelectSeq(StudentOrder, LAMBDA s : s \in S)

BulkStart(p, u, n, amount, level) ==
  /\ proc[p].op = "idle"
  /\ LET o == get_organization(u)
         a == [name |-> n]
     IN IF ~OfficerRequiredMixin_test_func(u)
        THEN Answer(p, "bulk", u, a, "PermissionDenied") /\ UNCHANGED <<feeTypes, seq>>
        ELSE IF o = "NONE"
        THEN Answer(p, "bulk", u, a, "NoOrganization") /\ UNCHANGED <<feeTypes, seq>>
        ELSE LET f == fee_of_key(o, n)
                 targets == bulk_students(o, f, level)
             IN /\ f = 0 => seq.fee <= MaxFee
                /\ IF targets = {}
                   THEN /\ feeTypes' = BulkFeeWrite(o, n, amount, level)
                        /\ seq' = IF f = 0 THEN [seq EXCEPT !.fee = @ + 1] ELSE seq
                        /\ Answer(p, "bulk", u, a, "NoEligibleStudents")
                   ELSE /\ Continue(p, "bulk", u,
                              [name |-> n, amount |-> amount, level |-> level,
                               organization |-> o, targets |-> targets,
                               expires_at |-> now + ThirtyDays,
                               seen |-> [fee |-> f, requests |-> requests,
                                         payments |-> payments]],
                              "commit")
                        /\ UNCHANGED <<feeTypes, seq>>
  /\ UNCHANGED <<now, periods, officers, user_profile, requests, payments, receipts>>

BulkRequest(s, o, f, amount, exp) ==
  [student |-> s, organization |-> o, fee_type |-> f, amount |-> amount,
   status |-> "PENDING", qr_signature |-> EmptySignature,
   expires_at |-> exp, paid_at |-> -1]

\* post: the fee type write and the created requests become visible together
\* when the atomic block commits
BulkCommit(p) ==
  /\ proc[p].op = "bulk" /\ proc[p].pc = "commit"
  /\ LET l == proc[p].loc
         f0 == fee_of_key(l.organization, l.name)
         f == IF f0 = 0 THEN seq.fee ELSE f0
         order == OrderedTargets(l.targets)
         n == Len(order)
     IN /\ f0 = 0 => seq.fee <= MaxFee
        /\ seq.req + n - 1 <= MaxReq
        /\ feeTypes' = BulkFeeWrite(l.organization, l.name, l.amount, l.level)
        /\ requests' =
             [k \in DOMAIN requests \cup (seq.req .. (seq.req + n - 1)) |->
                IF k \in DOMAIN requests THEN requests[k]
                ELSE BulkRequest(order[k - seq.req + 1], l.organization, f,
                                 l.amount, l.expires_at)]
        /\ seq' = [seq EXCEPT !.req = @ + n,
                              !.fee = IF f0 = 0 THEN @ + 1 ELSE @]
        /\ Answer(p, "bulk", proc[p].user,
                  [name |-> l.name, fee |-> f, created_count |-> n,
                   failed_count |-> 0],
                  "Posted")
  /\ UNCHANGED <<now, periods, officers, user_profile, payments, receipts>>

\* post, when PaymentRequest.objects.create raises a database error for
\* student s: Model.save marks the enclosing atomic block for rollback, so the
\* creates of s and of every student after s raise and are counted as failed,
\* ActivityLog.objects.create raises outside any try, and the atomic block
\* rolls back the fee type write and the requests created before s.
BulkCommitFails(p, s) ==
  /\ proc[p].op = "bulk" /\ proc[p].pc = "commit"
  /\ s \in proc[p].loc.targets
  /\ LET l == proc[p].loc
         order == OrderedTargets(l.targets)
         at == CHOOSE i \in 1..Len(order) : order[i] = s
     IN Answer(p, "bulk", proc[p].user,
               [name |-> l.name, fee |-> l.seen.fee, created_count |-> at - 1,
                failed_count |-> Len(order) - at + 1],
               "ServerError")
  /\ UNCHANGED <<now, db>>

(* ---------------------- AcademicYearConfigUpdateView ------------------- *)
\* StaffRequiredMixin.test_func
StaffRequiredMixin_test_func(u) == is_staff(u)

\* UpdateView.post up to the first statement of AcademicYearConfig.save: with
\* is_current set, every other row marked current is updated to not current.
PeriodSaveStart(p, u, k, is_current) ==
  /\ proc[p].op = "idle"
  /\ LET l == [pk |-> k, is_current |-> is_current]
     IN IF ~StaffRequiredMixin_test_func(u)
        THEN Answer(p, "period_save", u, l, "PermissionDenied")
             /\ UNCHANGED periods
        ELSE IF k \notin DOMAIN periods
        THEN Answer(p, "period_save", u, l, "NotFound") /\ UNCHANGED periods
        ELSE /\ periods' =
                  IF is_current
                  THEN [j \in DOMAIN periods |->
                          IF j # k /\ periods[j].is_current
                          THEN [periods[j] EXCEPT !.is_current = FALSE]
                          ELSE periods[j]]
                  ELSE periods
             /\ Continue(p, "period_save", u, l, "save")
  /\ UNCHANGED <<now, officers, user_profile, feeTypes, requests, payments,
                 receipts, seq>>

\* super().save(): the row is written with the posted is_current
PeriodSave(p) ==
  /\ proc[p].op = "period_save" /\ proc[p].pc = "save"
  /\ LET l == proc[p].loc
     IN /\ periods' = [periods EXCEPT ![l.pk].is_current = l.is_current]
        /\ Answer(p, "period_save", proc[p].user, l, "Saved")
  /\ UNCHANGED <<now, officers, user_profile, feeTypes, requests, payments,
                 receipts, seq>>

(* ------------------------------- Next ---------------------------------- *)
\* Signatures an officer may present for request rid: the one the QR shown to
\* the student carries, the right one, and a forged one.
PresentedSignatures(rid) ==
  {create_signature(UuidStr(rid)), ForgedSignature}
    \cup (IF rid \in DOMAIN requests THEN {requests[rid].qr_signature} ELSE {})

FeeIds == 1..MaxFee
Levels == {LevelAll, Level1, Level2}

\* A new handler takes the first free slot.
Free(p) == proc[p].op = "idle" /\ \A q \in Procs : q < p => proc[q].op # "idle"

\* Accounts that try the officer views, the student views, the admin views
RedeemActors == Users \ {"stu2"}
PollActors == Students \cup {"comsci_officer"}
AdminActors == {"admin", "all_org_officer", "comsci_officer", "stu1"}

Create ==
  \E p \in Procs :
     \/ \E u \in Students, f \in FeeIds : Free(p) /\ CreateFormValidate(p, u, f)
     \/ CreateFormCheck(p)
     \/ CreateFormCommit(p)
     \/ \E u \in Students, f \in FeeIds : Free(p) /\ QuickValidate(p, u, f)
     \/ QuickCheck(p)
     \/ QuickCommit(p)

Redeem ==
  \E p \in Procs :
     \/ \E u \in RedeemActors, rid \in ReqIds, a \in ReceivedAmounts :
          \E sg \in PresentedSignatures(rid) :
             Free(p) /\ RedeemStart(p, u, rid, sg, a)
     \/ RedeemOrCheck(p)
     \/ RedeemCommit(p)

Poll ==
  \E p \in Procs :
     \/ \E u \in PollActors, rid \in ReqIds : Free(p) /\ PollRead(p, u, rid)
     \/ PollSave(p)

FeeDelete ==
  \E p \in Procs :
     \/ \E u \in AdminActors, f \in FeeIds : Free(p) /\ FeeDeleteCancel(p, u, f)
     \/ FeeDeleteCascade(p)

BulkPost(U, N, A, L) ==
  \E p \in Procs :
     \/ \E u \in U, n \in N, a \in A, lv \in L :
          Free(p) /\ BulkStart(p, u, n, a, lv)
     \/ BulkCommit(p)

Bulk == BulkPost(RedeemActors, FeeNames, FeeAmounts, Levels)

Next == Create \/ Redeem \/ Poll \/ FeeDelete \/ Bulk \/ Tick

Spec == Init /\ [][Next]_vars

(* ------------------- redemption of outstanding requests ---------------- *)
\* The database once stu1 has generated a QR for the program fee through the
\* form and stu2 one for the college fee through the quick path.
InitRedeem ==
  /\ now = 0
  /\ officers = InitOfficers
  /\ user_profile = [u \in Users |-> [is_officer |-> InitOfficers[u].exists]]
  /\ feeTypes = (1 :> FeeRec("COMSCI", "Membership", 15000, LevelAll))
                  @@ (2 :> FeeRec("ALLORG", "Library", 15000, LevelAll))
  /\ requests =
       (1 :> NewRequest("stu1", 1, FeeRec("COMSCI", "Membership", 15000, LevelAll),
                        FormSignature(1), 0))
  /\ payments = EmptyTable
  /\ periods = InitPeriods
  /\ receipts = EmptyTable
  /\ seq = [fee |-> 3, req |-> 2, pay |-> 1]
  /\ proc = [p \in Procs |-> Idle]
  /\ last = NoAnswer

NextRedeem == Redeem \/ Poll \/ FeeDelete \/ Tick

SpecRedeem == InitRedeem /\ [][NextRedeem]_vars

\* Concurrent redemption attempts only
SpecRedeemRace == InitRedeem /\ [][Redeem]_vars

(* ------------------------ creation of requests ------------------------- *)
\* The program officer posts the membership fee while students generate QRs.
NextCreate ==
  Create \/ BulkPost({"comsci_officer", "stu1"}, {"Membership"}, FeeAmounts,
                     {LevelAll, Level2})

SpecCreate == Init /\ [][NextCreate]_vars

(* -------------------- fee amount edits and redemption ------------------ *)
RedeemAttempt(U, A) ==
  \E p \in Procs :
     \/ \E u \in U, rid \in ReqIds, a \in A :
          Free(p) /\ RedeemStart(p, u, rid, create_signature(UuidStr(rid)), a)
     \/ RedeemOrCheck(p)
     \/ RedeemCommit(p)

FeeUpdate(U) ==
  \E p \in Procs : \E u \in U, f \in FeeIds, a \in FeeAmounts :
     Free(p) /\ FeeTypeUpdate(p, u, f, a)

\* The database once stu1 has generated a QR for the college fee.
InitSnapshot ==
  /\ now = 0
  /\ officers = InitOfficers
  /\ user_profile = [u \in Users |-> [is_officer |-> InitOfficers[u].exists]]
  /\ feeTypes = (1 :> FeeRec("COMSCI", "Membership", 15000, LevelAll))
                  @@ (2 :> FeeRec("ALLORG", "Library", 15000, LevelAll))
  /\ requests =
       (1 :> NewRequest("stu1", 2, FeeRec("ALLORG", "Library", 15000, LevelAll),
                        FormSignature(1), 0))
  /\ payments = EmptyTable
  /\ periods = InitPeriods
  /\ receipts = EmptyTable
  /\ seq = [fee |-> 3, req |-> 2, pay |-> 1]
  /\ proc = [p \in Procs |-> Idle]
  /\ last = NoAnswer

\* The college officer posts the library fee again and edits fee amounts
\* while officers redeem.
NextSnapshot ==
  \/ BulkPost({"all_org_officer"}, {"Library"}, FeeAmounts, {LevelAll})
  \/ FeeUpdate({"all_org_officer", "comsci_officer"})
  \/ RedeemAttempt({"all_org_officer", "it_officer"}, {15000, 30000})

SpecSnapshot == InitSnapshot /\ [][NextSnapshot]_vars

(* --------------------------- VoidPaymentView --------------------------- *)
\* VoidPaymentView.test_func (it replaces the one of OfficerRequiredMixin)
VoidPaymentView_test_func(u) ==
  \/ is_superuser(u)
  \/ /\ has_officer_profile(u)
     /\ officers[u].can_void_payments \/ officers[u].is_super_officer

\* VoidPaymentView.get_object: the answer of one read of the Payment row
VoidPaymentView_get_object(u, k) ==
  IF k \notin DOMAIN payments THEN "NotFound"
  ELSE IF /\ ~(is_superuser(u)
                 \/ (has_officer_profile(u) /\ officers[u].is_super_officer))
          /\ payments[k].organization \notin
               get_accessible_organization_ids(officers[u].organization)
  THEN "NotFound"
  ELSE IF payments[k].status # "COMPLETED" \/ payments[k].is_void
  THEN "NotVoidable"
  ELSE "ok"

\* VoidPaymentForm.clean_void_reason: at least ten characters after strip()
MinReasonLength == 10
VoidReasons ==
  {[text |-> "duplicate entry", length |-> 15],
   [text |-> "wrong student charged", length |-> 21],
   [text |-> "oops", length |-> 4]}
clean_void_reason(reason) == reason.length >= MinReasonLength

\* Variant: the row is flagged void and keeps its status
mark_as_void_KeepsStatus(snap, officer, reason) ==
  [snap EXCEPT !.is_void = TRUE, !.void_reason = reason,
               !.voided_by = officer, !.voided_at = now]

\* Payment.mark_as_void: save() writes the whole row as it was read
mark_as_void(snap, officer, reason) ==
  [snap EXCEPT !.status = "VOID", !.is_void = TRUE, !.void_reason = reason,
               !.voided_by = officer, !.voided_at = now]

\* UpdateView.post: test_func, get_object, then the form
VoidStart(p, u, k, reason) ==
  /\ proc[p].op = "idle"
  /\ LET l == [actor |-> u, pk |-> k, reason |-> reason.text]
     IN IF ~VoidPaymentView_test_func(u)
        THEN Answer(p, "void", u, l, "PermissionDenied")
        ELSE IF VoidPaymentView_get_object(u, k) # "ok"
        THEN Answer(p, "void", u, l, VoidPaymentView_get_object(u, k))
        ELSE IF ~clean_void_reason(reason)
        THEN Answer(p, "void", u, l, "InvalidForm")
        ELSE Continue(p, "void", u, l, "form_valid")
  /\ UNCHANGED <<now, db>>

\* form_valid: get_object once more, and the voiding officer
VoidFormValid(p) ==
  /\ proc[p].op = "void" /\ proc[p].pc = "form_valid"
  /\ LET u == proc[p].user
         l == proc[p].loc
     IN IF VoidPaymentView_get_object(u, l.pk) # "ok"
        THEN Answer(p, "void", u, l, VoidPaymentView_get_object(u, l.pk))
        ELSE Continue(p, "void", u,
                      l @@ [payment |-> payments[l.pk],
                            officer |-> IF has_officer_profile(u) THEN u
                                        ELSE "NONE"],
                      "mark_as_void")
  /\ UNCHANGED <<now, db>>

\* payment.mark_as_void(officer, reason) inside transaction.atomic()
VoidCommit(p) ==
  /\ proc[p].op = "void" /\ proc[p].pc = "mark_as_void"
  /\ LET u == proc[p].user
         l == proc[p].loc
     IN /\ payments' = (l.pk :> mark_as_void(l.payment, l.officer, l.reason))
                         @@ payments
        /\ Answer(p, "void", u, [actor |-> l.actor, pk |-> l.pk, reason |-> l.reason],
                  "Voided")
  /\ UNCHANGED <<now, periods, officers, user_profile, feeTypes, requests, receipts, seq>>

(* ==================== officer management (accounts) ==================== *)
\* Accounts with a User row are the domain of officers and user_profile; an
\* account without an Officer row maps to NoOfficer.
Accounts == DOMAIN officers

OfficerRow(o, can_void, can_promote, super) ==
  [exists |-> TRUE, organization |-> o, is_active |-> TRUE,
   can_void_payments |-> can_void, can_promote_officers |-> can_promote,
   is_super_officer |-> super]

\* PromoteStudentToOfficerView.test_func, DemoteOfficerToStudentView.test_func
PromoteView_test_func(u) ==
  is_staff(u)
    \/ (has_officer_profile(u)
          /\ (officers[u].can_promote_officers \/ officers[u].is_super_officer))

\* SetSuperOfficerView.test_func
SetSuperOfficerView_test_func(u) ==
  is_superuser(u)
    \/ (has_officer_profile(u)
          /\ (officers[u].can_promote_officers \/ officers[u].is_super_officer))

\* PromoteStudentToOfficerView.get_accessible_students
get_accessible_students(u) ==
  LET base_qs == {s \in Students \cap Accounts :
                    student_profile[s].is_active /\ ~has_officer_profile(s)}
  IN IF is_superuser(u) THEN base_qs
     ELSE IF has_officer_profile(u)
     THEN IF organizations[officers[u].organization].hierarchy_level = "PROGRAM"
          THEN {s \in base_qs :
                  student_profile[s].program_type
                    = organizations[officers[u].organization].program_affiliation}
          ELSE base_qs
     ELSE IF is_staff(u) THEN base_qs
     ELSE {}

\* post: the organization queryset of the promote form
promote_organizations(u) ==
  IF has_officer_profile(u) THEN {officers[u].organization} ELSE Orgs

\* Variant: the capabilities asked for are granted as they are
PromoteStudent_NoCeiling(p, u, target, org, can_void, can_promote, super) ==
  /\ proc[p].op = "idle"
  /\ LET l == [actor |-> u, target |-> target,
                asked_promote |-> can_promote, asked_super |-> super]
         capped == ~is_superuser(u) /\ has_officer_profile(u)
     IN IF ~PromoteView_test_func(u)
        THEN Answer(p, "promote", u, l, "PermissionDenied")
             /\ UNCHANGED <<officers, user_profile>>
        ELSE IF target \notin get_accessible_students(u)
                  \/ org \notin promote_organizations(u)
        THEN Answer(p, "promote", u, l, "InvalidChoice")
             /\ UNCHANGED <<officers, user_profile>>
        ELSE IF user_profile[target].is_officer
        THEN Answer(p, "promote", u, l, "AlreadyOfficer")
             /\ UNCHANGED <<officers, user_profile>>
        ELSE IF capped /\ org # officers[u].organization
        THEN Answer(p, "promote", u, l, "WrongOrganization")
             /\ UNCHANGED <<officers, user_profile>>
        ELSE /\ officers' = [officers EXCEPT ![target] =
                               OfficerRow(org, can_void, can_promote, super)]
             /\ user_profile' = [user_profile EXCEPT ![target].is_officer = TRUE]
             /\ Answer(p, "promote", u, l, "Promoted")
  /\ UNCHANGED <<now, periods, feeTypes, requests, payments, receipts, seq>>

\* Variant: a capability above the actor's own rejects the promotion
PromoteStudent_Rejecting(p, u, target, org, can_void, can_promote, super) ==
  /\ proc[p].op = "idle"
  /\ LET l == [actor |-> u, target |-> target,
                asked_promote |-> can_promote, asked_super |-> super]
         capped == ~is_superuser(u) /\ has_officer_profile(u)
         grant_promote ==
           can_promote /\ (capped => officers[u].can_promote_officers)
         grant_super ==
           super /\ (capped => officers[u].is_super_officer)
     IN IF ~PromoteView_test_func(u)
        THEN Answer(p, "promote", u, l, "PermissionDenied")
             /\ UNCHANGED <<officers, user_profile>>
        ELSE IF target \notin get_accessible_students(u)
                  \/ org \notin promote_organizations(u)
        THEN Answer(p, "promote", u, l, "InvalidChoice")
             /\ UNCHANGED <<officers, user_profile>>
        ELSE IF user_profile[target].is_officer
        THEN Answer(p, "promote", u, l, "AlreadyOfficer")
             /\ UNCHANGED <<officers, user_profile>>
        ELSE IF capped /\ org # officers[u].organization
        THEN Answer(p, "promote", u, l, "WrongOrganization")
             /\ UNCHANGED <<officers, user_profile>>
        ELSE IF (can_promote /\ ~grant_promote) \/ (super /\ ~grant_super)
        THEN Answer(p, "promote", u, l, "PrivilegeCeiling")
             /\ UNCHANGED <<officers, user_profile>>
        ELSE /\ officers' = [officers EXCEPT ![target] =
                               OfficerRow(org, can_void, grant_promote, grant_super)]
             /\ user_profile' = [user_profile EXCEPT ![target].is_officer = TRUE]
             /\ Answer(p, "promote", u, l, "Promoted")
  /\ UNCHANGED <<now, periods, feeTypes, requests, payments, receipts, seq>>

\* PromoteStudentToOfficerView.post; the capabilities asked for are cut to the
\* actor's own with a warning, and the promotion goes on.
PromoteStudent(p, u, target, org, can_void, can_promote, super) ==
  /\ proc[p].op = "idle"
  /\ LET l == [actor |-> u, target |-> target,
                asked_promote |-> can_promote, asked_super |-> super]
         capped == ~is_superuser(u) /\ has_officer_profile(u)
         grant_promote ==
           can_promote /\ (capped => officers[u].can_promote_officers)
         grant_super ==
           super /\ (capped => officers[u].is_super_officer)
     IN IF ~PromoteView_test_func(u)
        THEN Answer(p, "promote", u, l, "PermissionDenied")
             /\ UNCHANGED <<officers, user_profile>>
        ELSE IF target \notin get_accessible_students(u)
                  \/ org \notin promote_organizations(u)
        THEN Answer(p, "promote", u, l, "InvalidChoice")
             /\ UNCHANGED <<officers, user_profile>>
        ELSE IF user_profile[target].is_officer
        THEN Answer(p, "promote", u, l, "AlreadyOfficer")
             /\ UNCHANGED <<officers, user_profile>>
        ELSE IF capped /\ org # officers[u].organization
        THEN Answer(p, "promote", u, l, "WrongOrganization")
             /\ UNCHANGED <<officers, user_profile>>
        ELSE /\ officers' = [officers EXCEPT ![target] =
                               OfficerRow(org, can_void, grant_promote, grant_super)]
             /\ user_profile' = [user_profile EXCEPT ![target].is_officer = TRUE]
             /\ Answer(p, "promote", u, l, "Promoted")
  /\ UNCHANGED <<now, periods, feeTypes, requests, payments, receipts, seq>>

\* DemoteOfficerToStudentView.get_accessible_officers
get_accessible_officers(u) ==
  LET active == {t \in Accounts : officers[t].exists /\ officers[t].is_active}
  IN IF is_superuser(u) THEN active
     ELSE IF has_officer_profile(u)
     THEN LET org == officers[u].organization
              org_ids == IF organizations[org].hierarchy_level = "PROGRAM"
                         THEN {org}
                         ELSE get_accessible_organization_ids(org)
          IN {t \in active : officers[t].organization \in org_ids}
     ELSE IF is_staff(u) THEN active
     ELSE {}

\* Variant: the officer queryset and the organization check of the staff path
\* are applied to every actor
DemoteOfficer_Unscoped(p, u, target) ==
  /\ proc[p].op = "idle"
  /\ LET l == [actor |-> u, target |-> target]
     IN IF ~PromoteView_test_func(u)
        THEN Answer(p, "demote", u, l, "PermissionDenied")
             /\ UNCHANGED <<officers, user_profile>>
        ELSE IF ~(target \in Accounts /\ officers[target].exists
                    /\ officers[target].is_active)
        THEN Answer(p, "demote", u, l, "InvalidChoice")
             /\ UNCHANGED <<officers, user_profile>>
        ELSE /\ officers' = [officers EXCEPT ![target] = NoOfficer]
             /\ user_profile' = [user_profile EXCEPT ![target].is_officer = FALSE]
             /\ Answer(p, "demote", u, l, "Demoted")
  /\ UNCHANGED <<now, periods, feeTypes, requests, payments, receipts, seq>>

\* Variant: the Officer record is deleted and the UserProfile flag is left
DemoteOfficer_KeepsFlag(p, u, target) ==
  /\ proc[p].op = "idle"
  /\ LET l == [actor |-> u, target |-> target]
     IN IF ~PromoteView_test_func(u)
        THEN Answer(p, "demote", u, l, "PermissionDenied")
             /\ UNCHANGED <<officers, user_profile>>
        ELSE IF target \notin get_accessible_officers(u)
        THEN Answer(p, "demote", u, l, "InvalidChoice")
             /\ UNCHANGED <<officers, user_profile>>
        ELSE IF ~is_superuser(u) /\ has_officer_profile(u)
                /\ officers[target].organization \notin
                     get_accessible_organization_ids(officers[u].organization)
        THEN Answer(p, "demote", u, l, "WrongOrganization")
             /\ UNCHANGED <<officers, user_profile>>
        ELSE /\ officers' = [officers EXCEPT ![target] = NoOfficer]
             /\ UNCHANGED user_profile
             /\ Answer(p, "demote", u, l, "Demoted")
  /\ UNCHANGED <<now, periods, feeTypes, requests, payments, receipts, seq>>

\* DemoteOfficerToStudentView.post
DemoteOfficer(p, u, target) ==
  /\ proc[p].op = "idle"
  /\ LET l == [actor |-> u, target |-> target]
     IN IF ~PromoteView_test_func(u)
        THEN Answer(p, "demote", u, l, "PermissionDenied")
             /\ UNCHANGED <<officers, user_profile>>
        ELSE IF target \notin get_accessible_officers(u)
        THEN Answer(p, "demote", u, l, "InvalidChoice")
             /\ UNCHANGED <<officers, user_profile>>
        ELSE IF ~is_superuser(u) /\ has_officer_profile(u)
                /\ officers[target].organization \notin
                     get_accessible_organization_ids(officers[u].organization)
        THEN Answer(p, "demote", u, l, "WrongOrganization")
             /\ UNCHANGED <<officers, user_profile>>
        ELSE /\ officers' = [officers EXCEPT ![target] = NoOfficer]
             /\ user_profile' = [user_profile EXCEPT ![target].is_officer = FALSE]
             /\ Answer(p, "demote", u, l, "Demoted")
  /\ UNCHANGED <<now, periods, feeTypes, requests, payments, receipts, seq>>

\* SetSuperOfficerView.post, action toggle_super_officer
SetSuperOfficer(p, u, target) ==
  /\ proc[p].op = "idle"
  /\ LET l == [actor |-> u, target |-> target]
     IN IF ~SetSuperOfficerView_test_func(u)
        THEN Answer(p, "set_super", u, l, "PermissionDenied") /\ UNCHANGED officers
        ELSE IF target \notin Students \cap Accounts
        THEN Answer(p, "set_super", u, l, "NotFound") /\ UNCHANGED officers
        ELSE IF ~has_officer_profile(target)
        THEN Answer(p, "set_super", u, l, "NotAnOfficer") /\ UNCHANGED officers
        ELSE IF ~is_superuser(u) /\ is_superuser(target)
        THEN Answer(p, "set_super", u, l, "PermissionDenied") /\ UNCHANGED officers
        ELSE IF has_officer_profile(u) /\ ~officers[u].is_super_officer
                /\ ~is_superuser(u)
        THEN Answer(p, "set_super", u, l, "PrivilegeCeiling") /\ UNCHANGED officers
        ELSE IF ~is_superuser(u) /\ officers[target].is_super_officer
        THEN Answer(p, "set_super", u, l, "PermissionDenied") /\ UNCHANGED officers
        ELSE IF ~is_superuser(u) /\ has_officer_profile(u)
                /\ officers[target].organization \notin
                     get_accessible_organization_ids(officers[u].organization)
        THEN Answer(p, "set_super", u, l, "WrongOrganization") /\ UNCHANGED officers
        ELSE /\ officers' = [officers EXCEPT ![target].is_super_officer = ~@]
             /\ Answer(p, "set_super", u, l, "Toggled")
  /\ UNCHANGED <<now, periods, user_profile, feeTypes, requests, payments, receipts, seq>>

\* StepDownFromOfficerView.dispatch and post (confirmed, with a reason)
StepDown(p, u) ==
  /\ proc[p].op = "idle"
  /\ LET l == [actor |-> u, target |-> u]
     IN IF ~has_officer_profile(u)
        THEN Answer(p, "step_down", u, l, "NotAnOfficer")
             /\ UNCHANGED <<officers, user_profile>>
        ELSE IF ~officers[u].is_super_officer
        THEN Answer(p, "step_down", u, l, "PermissionDenied")
             /\ UNCHANGED <<officers, user_profile>>
        ELSE /\ officers' = [officers EXCEPT ![u] = NoOfficer]
             /\ user_profile' = [user_profile EXCEPT ![u].is_officer = FALSE]
             /\ Answer(p, "step_down", u, l, "SteppedDown")
  /\ UNCHANGED <<now, periods, feeTypes, requests, payments, receipts, seq>>

\* SuperOfficerOrStaffMixin.get_user_organization ("NONE": every organization)
get_user_organization(u) ==
  IF is_staff(u) THEN "NONE"
  ELSE IF has_officer_profile(u) THEN officers[u].organization
  ELSE "NONE"

\* OfficerDeleteView: DeleteView of the Officer row
OfficerDelete(p, u, target) ==
  /\ proc[p].op = "idle"
  /\ LET l == [actor |-> u, target |-> target]
     IN IF ~SuperOfficerOrStaffMixin_test_func(u)
        THEN Answer(p, "officer_delete", u, l, "PermissionDenied")
             /\ UNCHANGED officers
        ELSE IF \/ target \notin Accounts
                \/ ~has_officer_profile(target)
                \/ /\ get_user_organization(u) # "NONE"
                   /\ officers[target].organization # get_user_organization(u)
        THEN Answer(p, "officer_delete", u, l, "NotFound") /\ UNCHANGED officers
        ELSE /\ officers' = [officers EXCEPT ![target] = NoOfficer]
             /\ Answer(p, "officer_delete", u, l, "Deleted")
  /\ UNCHANGED <<now, periods, user_profile, feeTypes, requests, payments, receipts, seq>>

\* OfficerRegistrationView with OfficerRegistrationForm.save: a new account
\* with an Officer row of default permissions
OfficerRegister(p, u, new, org) ==
  /\ proc[p].op = "idle"
  /\ LET l == [actor |-> u, target |-> new]
     IN IF ~is_staff(u)
        THEN Answer(p, "register", u, l, "PermissionDenied")
             /\ UNCHANGED <<officers, user_profile>>
        ELSE IF new \in Accounts
        THEN Answer(p, "register", u, l, "UsernameTaken")
             /\ UNCHANGED <<officers, user_profile>>
        ELSE /\ officers' = Extend(officers, new, OfficerRow(org, FALSE, FALSE, FALSE))
             /\ user_profile' = Extend(user_profile, new, [is_officer |-> TRUE])
             /\ Answer(p, "register", u, l, "Registered")
  /\ UNCHANGED <<now, periods, feeTypes, requests, payments, receipts, seq>>

\* CreateOfficerView with CreateOfficerForm.save
CreateOfficer(p, u, new, org, can_void, can_promote, super) ==
  /\ proc[p].op = "idle"
  /\ LET l == [actor |-> u, target |-> new]
     IN IF ~is_superuser(u)
        THEN Answer(p, "create_officer", u, l, "PermissionDenied")
             /\ UNCHANGED <<officers, user_profile>>
        ELSE IF new \in Accounts
        THEN Answer(p, "create_officer", u, l, "UsernameTaken")
             /\ UNCHANGED <<officers, user_profile>>
        ELSE /\ officers' = Extend(officers, new,
                                   OfficerRow(org, can_void, can_promote, super))
             /\ user_profile' = Extend(user_profile, new, [is_officer |-> TRUE])
             /\ Answer(p, "create_officer", u, l, "Created")
  /\ UNCHANGED <<now, periods, feeTypes, requests, payments, receipts, seq>>

\* Accounts that try the officer-management views, and the accounts they name
OfficerActors == {"admin", "all_org_officer", "comsci_officer", "stu1"}
OfficerTargets == {"stu1", "stu2", "comsci_officer", "old_officer"}

Promote(U, T, O, V) ==
  \E p \in Procs : \E u \in U, t \in T, o \in O, cv \in V,
                      cp \in BOOLEAN, su \in BOOLEAN :
     Free(p) /\ PromoteStudent(p, u, t, o, cv, cp, su)

Demote(U, T) ==
  \E p \in Procs : \E u \in U, t \in T : Free(p) /\ DemoteOfficer(p, u, t)

SetSuper(U, T) ==
  \E p \in Procs : \E u \in U, t \in T : Free(p) /\ SetSuperOfficer(p, u, t)

StepDownBy(U) ==
  \E p \in Procs : \E u \in U : Free(p) /\ StepDown(p, u)

DeleteOfficer(U, T) ==
  \E p \in Procs : \E u \in U, t \in T : Free(p) /\ OfficerDelete(p, u, t)

Register(U) ==
  \E p \in Procs : \E u \in U :
     Free(p) /\ OfficerRegister(p, u, "registered_officer", "COMSCI")

CreateAccount(U) ==
  \E p \in Procs : \E u \in U, cp \in BOOLEAN :
     Free(p) /\ CreateOfficer(p, u, "created_officer", "IT", TRUE, cp, FALSE)

\* Promotion, demotion and super-officer grants among students and officers
NextOfficers ==
  \/ Promote(OfficerActors, Students, Orgs, {TRUE})
  \/ Demote(OfficerActors, OfficerTargets)
  \/ SetSuper(OfficerActors, Students)
  \/ StepDownBy(OfficerActors)

SpecOfficers == Init /\ [][NextOfficers]_vars

(* --------------------------- voiding payments -------------------------- *)
Void(U, K) ==
  \E p \in Procs :
     \/ \E u \in U, k \in K, reason \in VoidReasons :
           Free(p) /\ VoidStart(p, u, k, reason)
     \/ VoidFormValid(p)
     \/ VoidCommit(p)

\* The program officer redeems stu1's membership request; officers of both
\* programs, and a student the administrator promotes into IT, try to void
\* the payment.
NextVoid ==
  \/ RedeemAttempt({"comsci_officer"}, {15000})
  \/ Promote({"admin"}, {"stu2"}, {"IT"}, {TRUE})
  \/ Void({"comsci_officer", "it_officer", "stu2"}, {1})
  \/ Tick

SpecVoid == InitRedeem /\ [][NextVoid]_vars

(* ------------------- bulk posts, redemption and voids ------------------ *)
\* Officers post the membership fee, for all year levels or one, while the
\* program officer redeems and voids.
NextBulk ==
  \/ BulkPost({"comsci_officer", "all_org_officer"}, {"Membership"}, {15000},
              Levels)
  \/ RedeemAttempt({"comsci_officer"}, {15000})
  \/ Void({"comsci_officer"}, {1})

SpecBulk == Init /\ [][NextBulk]_vars

\* Bulk posts in which the creation of a request may fail
BulkFailure == \E p \in Procs, s \in Students : BulkCommitFails(p, s)

NextBulkFailure ==
  \/ BulkPost({"comsci_officer", "all_org_officer"}, {"Membership", "Library"},
              {15000}, Levels)
  \/ BulkFailure

SpecBulkFailure == Init /\ [][NextBulkFailure]_vars

(* ------------------- academic periods and student fees ---------------- *)
QuickCreate(U, F) ==
  \E p \in Procs :
     \/ \E u \in U, f \in F : Free(p) /\ QuickValidate(p, u, f)
     \/ QuickCheck(p)
     \/ QuickCommit(p)

PeriodChange(U) ==
  \E p \in Procs :
     \/ \E u \in U, k \in DOMAIN InitPeriods, c \in BOOLEAN :
           Free(p) /\ PeriodSaveStart(p, u, k, c)
     \/ PeriodSave(p)

\* A student generates QRs for its two fees, the college officer redeems and
\* voids, the administrator edits the academic periods.
NextFees ==
  \/ QuickCreate({"stu1"}, {1, 2})
  \/ RedeemAttempt({"all_org_officer"}, {15000})
  \/ Void({"all_org_officer"}, {1})
  \/ PeriodChange({"admin", "stu1"})

SpecFees == Init /\ [][NextFees]_vars

\* Every operation that creates or removes an Officer row
NextAccounts ==
  \/ Promote({"admin", "comsci_officer"}, {"stu1"}, {"COMSCI", "IT"}, {TRUE})
  \/ Demote({"admin", "comsci_officer"}, {"stu1", "comsci_officer"})
  \/ StepDownBy({"all_org_officer", "stu1"})
  \/ DeleteOfficer({"admin", "all_org_officer", "stu1"},
                   {"stu1", "comsci_officer", "registered_officer"})
  \/ Register({"admin", "stu1"})
  \/ CreateAccount({"admin", "stu1"})

SpecAccounts == Init /\ [][NextAccounts]_vars

(* ============================== claims ================================= *)
PaymentsOf(rid) == {k \in DOMAIN payments : payments[k].payment_request = rid}

GuardRejections ==
  {"PermissionDenied", "NotFound", "InvalidSignature", "NotAnOfficer",
   "WrongOrganization", "InsufficientAmount"}

\* C1: redemption is exactly-once under concurrency: of the attempts that
\* interleave on one PENDING request, each with a valid signature, an in-scope
\* officer and a sufficient amount, one succeeds, one Payment exists for the
\* request, and every other attempt ends as "already processed".
C1_ExactlyOnce ==
  /\ \A rid \in DOMAIN requests : Cardinality(PaymentsOf(rid)) <= 1
  /\ (last.op = "redeem" /\ last.out \notin GuardRejections)
        => last.out \in {"Success", "AlreadyProcessed"}

\* C2: at most one PENDING request exists per (student, fee type), under every
\* interleaving of create-request operations and bulk postings.
C2_OnePendingPerStudentFee ==
  \A s \in Students, f \in FeeIds :
     Cardinality({rid \in DOMAIN requests :
                    /\ requests[rid].student = s
                    /\ requests[rid].fee_type = f
                    /\ requests[rid].status = "PENDING"}) <= 1

\* C3: a Payment linked to request r exists if and only if r is PAID.
C3_PaymentIffPaid ==
  \A rid \in DOMAIN requests :
     (PaymentsOf(rid) # {}) <=> (requests[rid].status = "PAID")

\* C4: every request starts PENDING, and a request that is PAID, CANCELLED or
\* EXPIRED never changes its status again.
C4_TerminalIsFinal ==
  [][ /\ \A rid \in DOMAIN requests' \ DOMAIN requests :
            requests'[rid].status = "PENDING"
      /\ \A rid \in DOMAIN requests \cap DOMAIN requests' :
            requests[rid].status \in {"PAID", "CANCELLED", "EXPIRED"}
              => requests'[rid].status = requests[rid].status ]_vars

\* C5: a create-request for (student, fee) while the student holds a PENDING
\* request or a completed, non-void Payment for the fee is rejected with the
\* duplicate-fee outcome and changes no state.
C5_DuplicateFeeRejected ==
  \A p \in Procs, s \in Students, f \in DOMAIN feeTypes :
     (HasPendingRequest(s, f) \/ HasCompletedPayment(s, f))
     => ~ENABLED
          ( /\ CreateFormValidate(p, s, f) \/ QuickValidate(p, s, f)
            /\ ~ ( /\ last'.out = "DuplicateFeeRequest"
                   /\ requests' = requests
                   /\ payments' = payments
                   /\ feeTypes' = feeTypes ) )

\* C6: every request a student creates, through the form or through the quick
\* path, carries qr_signature = sign(str(request_id)).
C6_SignatureBindsRequestId ==
  (last.op \in {"create_form", "create_quick"} /\ last.out = "Created")
    => requests[last.loc.rid].qr_signature
         = create_signature(UuidStr(last.loc.rid))

\* C7: a redemption attempt whose signature differs from sign(str(request_id))
\* is answered "invalid signature", whatever the officer and the status of the
\* request, and changes no request, payment or receipt.
C7_InvalidSignatureRejected ==
  \A p \in Procs, u \in RedeemActors, rid \in DOMAIN requests,
     a \in ReceivedAmounts :
     \A sg \in PresentedSignatures(rid) :
        (OfficerRequiredMixin_test_func(u) /\ sg # create_signature(UuidStr(rid)))
        => ~ENABLED ( /\ RedeemStart(p, u, rid, sg, a)
                      /\ ~ ( /\ last'.out = "InvalidSignature"
                             /\ requests' = requests
                             /\ payments' = payments
                             /\ receipts' = receipts ) )

C7_Witness ==
  /\ last.op = "redeem" /\ last.out = "InvalidSignature"
  /\ 1 \in DOMAIN requests /\ requests[1].status = "PAID"

\* C8: a redemption attempt with the right signature by an officer whose
\* accessible organizations do not contain the request's organization is
\* answered "wrong organization" (an outcome of its own), changes nothing, and
\* leaves a PENDING request redeemable by an officer in scope.
C8_WrongOrganizationRejected ==
  \A p \in Procs, u \in RedeemActors, rid \in DOMAIN requests,
     a \in ReceivedAmounts :
     ( /\ has_officer_profile(u) /\ ~is_superuser(u)
       /\ requests[rid].organization
            \notin get_accessible_organization_ids(officers[u].organization) )
     => ~ENABLED
          ( /\ RedeemStart(p, u, rid, create_signature(UuidStr(rid)), a)
            /\ ~ ( /\ last'.out = "WrongOrganization"
                   /\ last'.out \notin {"AlreadyProcessed", "InvalidSignature"}
                   /\ requests' = requests
                   /\ payments' = payments
                   /\ requests[rid].status = "PENDING" =>
                        \A v \in RedeemActors :
                           ( /\ has_officer_profile(v) /\ officers[v].is_active
                             /\ requests[rid].organization \in
                                  get_accessible_organization_ids(
                                    officers[v].organization) )
                           => get_payment_request(
                                v, rid, create_signature(UuidStr(rid)),
                                requests[rid].amount)' = "ok" ) )

C8_Witness ==
  /\ last.op = "redeem" /\ last.out = "WrongOrganization"
  /\ last.loc.rid \in DOMAIN requests
  /\ requests[last.loc.rid].status = "PENDING"

\* C9: a request moves to PAID only by an attempt of an account that holds an
\* active Officer identity whose accessible organizations contain the
\* request's organization.
C9_OnlyActiveInScopeOfficer ==
  [][ \A rid \in DOMAIN requests \cap DOMAIN requests' :
        (requests[rid].status # "PAID" /\ requests'[rid].status = "PAID")
          => \E p \in Procs :
               /\ proc[p].op = "redeem" /\ proc[p].loc.rid = rid
               /\ proc'[p].op = "idle"
               /\ officers[proc[p].user].exists
               /\ officers[proc[p].user].is_active
               /\ requests[rid].organization \in
                    get_accessible_organization_ids(
                      officers[proc[p].user].organization) ]_vars

\* C10: every Payment of a redeemed request with amount A has amount = A,
\* amount_received >= A and change_given = amount_received - A >= 0; an attempt
\* with amount_received < A is rejected and leaves the request PENDING without
\* a Payment.
C10_ChangeExact ==
  /\ \A k \in DOMAIN payments :
        /\ payments[k].payment_request \in DOMAIN requests
        /\ payments[k].amount = requests[payments[k].payment_request].amount
        /\ payments[k].amount_received >= payments[k].amount
        /\ payments[k].change_given
             = payments[k].amount_received - payments[k].amount
        /\ payments[k].change_given >= 0
  /\ \A p \in Procs, u \in RedeemActors, rid \in DOMAIN requests,
        a \in ReceivedAmounts :
        a < requests[rid].amount
        => ~ENABLED
             ( /\ RedeemStart(p, u, rid, create_signature(UuidStr(rid)), a)
               /\ ~ ( /\ proc'[p].op = "idle"
                      /\ last'.op = "redeem" /\ last'.out # "Success"
                      /\ requests' = requests
                      /\ payments' = payments
                      /\ ( /\ OfficerRequiredMixin_test_func(u)
                           /\ get_payment_request(
                                u, rid, create_signature(UuidStr(rid)),
                                requests[rid].amount) = "ok" )
                         => last'.out = "InsufficientAmount" ) )

C10_Witness ==
  /\ last.op = "redeem" /\ last.out = "Success"
  /\ \E k \in DOMAIN payments :
        /\ payments[k].amount = 15000
        /\ payments[k].amount_received = 20000
        /\ payments[k].change_given = 5000

\* C11: the amount of a request is fixed at creation: a later change of the
\* fee type's amount (a fee edit, or a second bulk post with another amount)
\* changes the amount of no existing request, and the Payment created at
\* redemption carries the request's amount, not the fee type's current one.
C11_AmountSnapshot ==
  [][ /\ \A rid \in DOMAIN requests \cap DOMAIN requests' :
            requests'[rid].amount = requests[rid].amount
      /\ \A k \in DOMAIN payments' \ DOMAIN payments :
            payments'[k].amount = requests[payments'[k].payment_request].amount
    ]_vars

C11_Witness ==
  \E k \in DOMAIN payments :
     /\ payments[k].amount = 15000
     /\ requests[payments[k].payment_request].amount = 15000
     /\ feeTypes[payments[k].fee_type].amount = 30000

\* C12: no privilege escalation: whenever a promote or a set-super-officer call
\* of an actor who is no administrator makes an Officer record gain
\* can_promote_officers, the actor holds can_promote_officers at that time,
\* and whenever it makes a record gain is_super_officer, the actor is a super
\* officer at that time.
NoEscalation(u) ==
  \A x \in DOMAIN officers' :
     /\ (officers'[x].can_promote_officers
           /\ ~(x \in Accounts /\ officers[x].can_promote_officers))
          => (has_officer_profile(u) /\ officers[u].can_promote_officers)
     /\ (officers'[x].is_super_officer
           /\ ~(x \in Accounts /\ officers[x].is_super_officer))
          => (has_officer_profile(u) /\ officers[u].is_super_officer)

C12_NoPrivilegeEscalation ==
  \A p \in Procs, u \in OfficerActors, t \in Students :
     ~is_staff(u) =>
       /\ \A o \in Orgs, cp \in BOOLEAN, su \in BOOLEAN :
             ~ENABLED (PromoteStudent(p, u, t, o, TRUE, cp, su) /\ ~NoEscalation(u))
       /\ ~ENABLED (SetSuperOfficer(p, u, t) /\ ~NoEscalation(u))

C12_Witness ==
  /\ last.op = "promote" /\ last.out = "Promoted"
  /\ ~is_staff(last.loc.actor)
  /\ officers[last.loc.actor].exists
  /\ officers[last.loc.actor].is_super_officer
  /\ ~officers[last.loc.actor].can_promote_officers
  /\ officers[last.loc.target].is_super_officer
  /\ ~officers[last.loc.target].can_promote_officers

\* A promote call of an officer actor, valid in every other respect, that asks
\* for a capability the actor does not hold.
AsksAboveCeiling(u, t, o, cp, su) ==
  /\ ~is_staff(u)
  /\ has_officer_profile(u)
  /\ PromoteView_test_func(u)
  /\ t \in get_accessible_students(u)
  /\ ~user_profile[t].is_officer
  /\ o = officers[u].organization
  /\ \/ cp /\ ~officers[u].can_promote_officers
     \/ su /\ ~officers[u].is_super_officer

\* C13 as stated: a promote call asking for a capability the non-administrator
\* actor lacks is rejected with PrivilegeCeiling, the promotion does not take
\* place and the target has no Officer record afterwards.
C13_CeilingRejected ==
  \A p \in Procs, u \in OfficerActors, t \in Students, o \in Orgs,
     cp \in BOOLEAN, su \in BOOLEAN :
     AsksAboveCeiling(u, t, o, cp, su) =>
       ~ENABLED (PromoteStudent(p, u, t, o, TRUE, cp, su)
                   /\ ~(/\ last'.out = "PrivilegeCeiling"
                        /\ ~officers'[t].exists
                        /\ ~user_profile'[t].is_officer))

\* C13: a promote call asking for a capability the non-administrator actor
\* lacks is not rejected: the promotion takes place, and the Officer record
\* the target gets carries of the capabilities asked for only those the actor
\* holds.
C13_CeilingCut ==
  \A p \in Procs, u \in OfficerActors, t \in Students, o \in Orgs,
     cp \in BOOLEAN, su \in BOOLEAN :
     AsksAboveCeiling(u, t, o, cp, su) =>
       ~ENABLED (PromoteStudent(p, u, t, o, TRUE, cp, su)
                   /\ ~(/\ last'.out = "Promoted"
                        /\ officers'[t] =
                             OfficerRow(o, TRUE,
                                        cp /\ officers[u].can_promote_officers,
                                        su /\ officers[u].is_super_officer)
                        /\ user_profile'[t].is_officer))

C13_Witness ==
  /\ last.op = "promote" /\ last.out = "Promoted"
  /\ ~is_staff(last.loc.actor)
  /\ last.loc.asked_super
  /\ last.loc.asked_promote
  /\ officers[last.loc.actor].can_promote_officers
  /\ ~officers[last.loc.actor].is_super_officer
  /\ officers[last.loc.target].exists
  /\ officers[last.loc.target].can_promote_officers
  /\ ~officers[last.loc.target].is_super_officer

\* C14 as stated: a promote call by an officer actor is permitted exactly when
\* the actor holds can_promote_officers or is a super officer and the target
\* organization lies in accessible_organizations(actor's organization); a
\* COLLEGE-level actor may promote into any of its PROGRAM children, a
\* PROGRAM-level actor only into its own organization.
C14_PromoteScope ==
  \A p \in Procs, u \in OfficerActors, t \in Students, o \in Orgs :
     (/\ ~is_superuser(u)
      /\ has_officer_profile(u)
      /\ t \in get_accessible_students(u)
      /\ ~user_profile[t].is_officer) =>
       ~ENABLED (PromoteStudent(p, u, t, o, TRUE, FALSE, FALSE)
                   /\ ~(last'.out = "Promoted"
                          <=> /\ \/ officers[u].can_promote_officers
                                 \/ officers[u].is_super_officer
                              /\ o \in get_accessible_organization_ids(
                                          officers[u].organization)))

\* The target holds an Officer record whose organization lies in the
\* accessible set of the actor's organization.
DemoteInScope(u, t) ==
  /\ has_officer_profile(u)
  /\ t \in Accounts
  /\ officers[t].exists
  /\ officers[t].organization \in
       get_accessible_organization_ids(officers[u].organization)

\* C15: a demote call by an actor who is no administrator removes the target's
\* Officer record only if the target's organization lies in the actor's
\* accessible set; any other call is rejected and leaves every Officer record
\* and every is_officer flag as they were.
C15_DemoteScope ==
  \A p \in Procs, u \in OfficerActors, t \in OfficerTargets :
     ~is_superuser(u) =>
       ~ENABLED (DemoteOfficer(p, u, t)
                   /\ ~(IF DemoteInScope(u, t)
                        THEN \/ /\ last'.out = "Demoted"
                                /\ officers' = [officers EXCEPT ![t] = NoOfficer]
                                /\ user_profile' =
                                     [user_profile EXCEPT ![t].is_officer = FALSE]
                             \/ /\ last'.out # "Demoted"
                                /\ UNCHANGED <<officers, user_profile>>
                        ELSE /\ last'.out # "Demoted"
                             /\ UNCHANGED <<officers, user_profile>>))

C15_Witness ==
  /\ last.op = "demote"
  /\ last.out \in {"InvalidChoice", "WrongOrganization"}
  /\ ~is_superuser(last.loc.actor)
  /\ has_officer_profile(last.loc.actor)
  /\ PromoteView_test_func(last.loc.actor)
  /\ last.loc.target \in Accounts
  /\ officers[last.loc.target].exists
  /\ officers[last.loc.target].is_active
  /\ user_profile[last.loc.target].is_officer
  /\ ~DemoteInScope(last.loc.actor, last.loc.target)

\* C16: in every state reachable by officer registration, officer creation,
\* promotion, demotion, step-down and officer deletion, an account's
\* UserProfile.is_officer flag is true if and only if an Officer record exists
\* for the account.
C16_FlagIffOfficerRecord ==
  \A u \in Accounts : user_profile[u].is_officer <=> officers[u].exists

\* C17: promoting an account and then demoting it returns it to its
\* pre-promotion state: the is_officer flag is false, no Officer record
\* exists, the Student identity is as it was, and a following promote of the
\* same account is accepted again.
C17_PromoteDemoteRoundTrip ==
  (last.op = "demote" /\ last.out = "Demoted" /\ last.loc.target \in Students) =>
    LET t == last.loc.target
    IN /\ officers[t] = NoOfficer
       /\ ~user_profile[t].is_officer
       /\ student_profile[t].is_active
       /\ t \in get_accessible_students("admin")
       /\ \A p \in Procs, o \in Orgs :
            /\ ENABLED PromoteStudent(p, "admin", t, o, TRUE, FALSE, FALSE)
            /\ ~ENABLED (PromoteStudent(p, "admin", t, o, TRUE, FALSE, FALSE)
                           /\ ~(/\ last'.out = "Promoted"
                                /\ officers'[t] = OfficerRow(o, TRUE, FALSE, FALSE)
                                /\ user_profile'[t].is_officer))

C17_Witness ==
  /\ last.op = "demote" /\ last.out = "Demoted"
  /\ last.loc.target \in Students
  /\ ~is_staff(last.loc.actor)
  /\ officers[last.loc.target] = NoOfficer
  /\ ~user_profile[last.loc.target].is_officer

\* C18 as stated: a Payment is voided only by an officer who holds
\* can_void_payments or is a super officer and whose accessible-organization
\* set contains the payment's organization; an officer outside that scope,
\* super officers included, never voids the payment.
C18_VoidOnlyInScope ==
  (last.op = "void" /\ last.out = "Voided" /\ ~is_superuser(last.loc.actor)) =>
    LET u == last.loc.actor
    IN /\ has_officer_profile(u)
       /\ officers[u].can_void_payments \/ officers[u].is_super_officer
       /\ payments[last.loc.pk].organization \in
            get_accessible_organization_ids(officers[u].organization)

\* C19 as stated: the void sub-state is set once: a Payment that is void or
\* not COMPLETED keeps is_void, void_reason, voided_by and voided_at through
\* every step, also a step of one of two interleaved void attempts, and no
\* step returns a void Payment to the non-void state.
C19_VoidSetOnce ==
  [][\A k \in DOMAIN payments :
        (payments[k].is_void \/ payments[k].status # "COMPLETED") =>
          /\ k \in DOMAIN payments'
          /\ payments'[k].is_void = payments[k].is_void
          /\ payments'[k].void_reason = payments[k].void_reason
          /\ payments'[k].voided_by = payments[k].voided_by
          /\ payments'[k].voided_at = payments[k].voided_at]_vars

\* The eligible set of a bulk post as the claim words it, on the rows the
\* post read: active students in the program scope of the organization that
\* pass the year-level filter and have neither a PENDING request nor a
\* completed non-void Payment for the fee type.
C20_Eligible(reqs, pays, o, f, level) ==
  {s \in Students :
     /\ student_profile[s].is_active
     /\ s \in students_in_scope(o)
     /\ level = LevelAll \/ str_year(student_profile[s].year_level) = level
     /\ ~\E k \in DOMAIN reqs :
           /\ reqs[k].student = s /\ reqs[k].fee_type = f
           /\ reqs[k].status = "PENDING"
     /\ ~\E k \in DOMAIN pays :
           /\ pays[k].student = s /\ pays[k].fee_type = f
           /\ pays[k].status = "COMPLETED" /\ ~pays[k].is_void}

\* What the commit of the bulk post in slot p has to leave
BulkCreated(p) ==
  LET l == proc[p].loc
      E == C20_Eligible(l.seen.requests, l.seen.payments,
                        l.organization, l.seen.fee, l.level)
      new == DOMAIN requests' \ DOMAIN requests
  IN /\ last'.op = "bulk" /\ last'.out = "Posted"
     /\ last'.loc.created_count = Cardinality(E)
     /\ last'.loc.failed_count = 0
     /\ Cardinality(new) = Cardinality(E)
     /\ \A s \in Students :
          Cardinality({k \in new :
                         /\ requests'[k].student = s
                         /\ requests'[k].status = "PENDING"
                         /\ requests'[k].fee_type = last'.loc.fee
                         /\ requests'[k].organization = l.organization})
            = IF s \in E THEN 1 ELSE 0

C21_PartialFailureIsolated ==
  [][\A p \in Procs :
        (/\ proc[p].op = "bulk" /\ proc[p].pc = "commit"
         /\ proc'[p].op = "idle") =>
          LET new == {k \in DOMAIN requests' \ DOMAIN requests :
                        /\ requests'[k].student \in proc[p].loc.targets
                        /\ requests'[k].status = "PENDING"}
          IN /\ Cardinality(new) = last'.loc.created_count
             /\ last'.loc.created_count + last'.loc.failed_count
                  = Cardinality(proc[p].loc.targets)]_vars

\* The fee types of one (organization, name, academic year, semester)
FeesOfKey(fees, o, n) ==
  {f \in DOMAIN fees :
     /\ fees[f].organization = o /\ fees[f].name = n
     /\ fees[f].academic_year = current_period.academic_year
     /\ fees[f].semester = current_period.semester}

\* What a post of (o, n) with the amount has to leave of its declaration
DeclaredOnce(o, n, amount) ==
  /\ Cardinality(FeesOfKey(feeTypes', o, n)) = 1
  /\ \A f \in FeesOfKey(feeTypes', o, n) : feeTypes'[f].amount = amount
  /\ \A f \in DOMAIN feeTypes :
        f \notin FeesOfKey(feeTypes, o, n) =>
          f \in DOMAIN feeTypes' /\ feeTypes'[f] = feeTypes[f]

\* C22: bulk posting is idempotent in its declarations: in every state one
\* FeeType at most exists per (organization, name, academic year, semester);
\* a post leaves that FeeType with the amount it posted; and it creates no
\* request for a student who held a PENDING request or a completed non-void
\* Payment for the fee type when the post read them.
C22_BulkDeclarationIdempotent ==
  /\ \A f \in DOMAIN feeTypes :
        FeesOfKey(feeTypes, feeTypes[f].organization, feeTypes[f].name) = {f}
  /\ \A p \in Procs :
        /\ (proc[p].op = "bulk" /\ proc[p].pc = "commit") =>
             ~ENABLED (BulkCommit(p)
                         /\ ~(/\ DeclaredOnce(proc[p].loc.organization,
                                              proc[p].loc.name, proc[p].loc.amount)
                              /\ \A k \in DOMAIN requests' \ DOMAIN requests :
                                   /\ ~\E r \in DOMAIN proc[p].loc.seen.requests :
                                         /\ proc[p].loc.seen.requests[r].student
                                              = requests'[k].student
                                         /\ proc[p].loc.seen.requests[r].fee_type
                                              = requests'[k].fee_type
                                         /\ proc[p].loc.seen.requests[r].status
                                              = "PENDING"
                                   /\ ~\E r \in DOMAIN proc[p].loc.seen.payments :
                                         /\ proc[p].loc.seen.payments[r].student
                                              = requests'[k].student
                                         /\ proc[p].loc.seen.payments[r].fee_type
                                              = requests'[k].fee_type
                                         /\ proc[p].loc.seen.payments[r].status
                                              = "COMPLETED"
                                         /\ ~proc[p].loc.seen.payments[r].is_void))
        /\ \A amount \in FeeAmounts :
             ~ENABLED (BulkStart(p, "all_org_officer", "Library", amount, LevelAll)
                         /\ last'.out = "NoEligibleStudents"
                         /\ ~(/\ DeclaredOnce("ALLORG", "Library", amount)
                              /\ requests' = requests))

\* the second post of the library fee: the amount follows, the request of the
\* first post stays the only one of its student
C22_Witness ==
  /\ last.op = "bulk" /\ last.out = "NoEligibleStudents"
  /\ FeesOfKey(feeTypes, "ALLORG", "Library") = {2}
  /\ feeTypes[2].amount = 30000
  /\ \E r \in DOMAIN requests :
        /\ requests[r].student = "stu2" /\ requests[r].fee_type = 2
        /\ requests[r].qr_signature = EmptySignature
        /\ requests[r].status = "PENDING" /\ requests[r].amount = 15000
        /\ \A q \in DOMAIN requests :
              (requests[q].student = "stu2" /\ requests[q].fee_type = 2) => q = r

\* The applicable fees of a student as the claim words them
C23_ApplicableFees(s) ==
  LET cur == {k \in DOMAIN periods : periods[k].is_current}
      matching ==
        {f \in DOMAIN feeTypes :
           /\ feeTypes[f].is_active
           /\ \E k \in cur :
                 /\ feeTypes[f].academic_year = periods[k].academic_year
                 /\ feeTypes[f].semester = periods[k].semester
           /\ \/ feeTypes[f].applicable_year_levels = LevelAll
              \/ \E i \in 1..Len(feeTypes[f].applicable_year_levels) :
                    <<feeTypes[f].applicable_year_levels[i]>>
                      = str_year(student_profile[s].year_level)
           /\ \/ /\ organizations[feeTypes[f].organization].fee_tier = "TIER_1"
                 /\ organizations[feeTypes[f].organization].program_affiliation
                      = student_profile[s].program_type
              \/ organizations[feeTypes[f].organization].fee_tier = "TIER_2"}
      covered ==
        {f \in DOMAIN feeTypes :
           \/ \E k \in DOMAIN payments :
                 /\ payments[k].student = s /\ payments[k].fee_type = f
                 /\ payments[k].status = "COMPLETED" /\ ~payments[k].is_void
           \/ \E k \in DOMAIN requests :
                 /\ requests[k].student = s /\ requests[k].fee_type = f
                 /\ requests[k].status = "PENDING"}
  IN IF student_profile[s].program_type = NoCourse \/ cur = {} THEN {}
     ELSE matching \ covered

\* C23: while one row at most is marked current, the applicable fees of every
\* student are the active fee types of the current academic period whose year
\* levels include the student's year or are 'All' and whose organization is
\* tier 1 of the student's program or tier 2, without the fee types for which
\* the student has a completed non-void Payment or a PENDING request; the set
\* is empty for a student without a course and when no period is current.
C23_ApplicableFeesExact ==
  Cardinality({k \in DOMAIN periods : periods[k].is_current}) <= 1 =>
    \A s \in StudentRows : get_applicable_fees(s) = C23_ApplicableFees(s)

\* stu1 paid one of its two fees and holds a request for the other
C23_Witness ==
  /\ Cardinality({k \in DOMAIN periods : periods[k].is_current}) = 1
  /\ tier_fees("stu1", "TIER_1") # {} /\ tier_fees("stu1", "TIER_2") # {}
  /\ paid_fee_ids("stu1") # {} /\ pending_fee_ids("stu1") # {}
  /\ get_applicable_fees("stu1") = {}
  /\ get_applicable_fees("stu2") # {}
  /\ get_applicable_fees("stu3") = {}

\* C24 as stated: one AcademicYearConfig row at most is marked current in
\* every reachable state, also when two saves that each mark a different row
\* current interleave.
C24_OneCurrentPeriod ==
  Cardinality({k \in DOMAIN periods : periods[k].is_current}) <= 1

\* C25 as stated: a request created through a student create path (its
\* expires_at is its creation time) is never moved to EXPIRED by any sequence
\* of reads, QR views and status polls.
C25_StudentRequestNeverExpires ==
  \A rid \in DOMAIN requests :
     requests[rid].qr_signature # EmptySignature =>
       requests[rid].status # "EXPIRED"

\* A redemption of request rid that is valid in every respect but time
ExpiredButValid(rid) ==
  /\ rid \in DOMAIN requests
  /\ requests[rid].status = "PENDING"
  /\ now > requests[rid].expires_at
  /\ requests[rid].organization = "COMSCI"
  /\ requests[rid].amount <= 15000

C27_Suffixed(orn, d) ==
  /\ Len(orn) = 3 /\ SubSeq(orn, 1, 2) = d /\ orn[3] \in 0..MaxTime

C27_ReceiptNumbers ==
  /\ \A j, k \in DOMAIN payments :
        j # k => payments[j].or_number # payments[k].or_number
  /\ \A k \in DOMAIN payments :
        LET d == or_number_of(payments[k].payment_request)
        IN \/ payments[k].or_number = d
           \/ /\ C27_Suffixed(payments[k].or_number, d)
              /\ \E j \in DOMAIN payments \ {k} : payments[j].or_number = d

\* two Payments whose requests share the derived number: one plain, one suffixed
C27_Witness ==
  \E j, k \in DOMAIN payments :
     /\ j # k
     /\ payments[j].or_number = or_number_of(payments[j].payment_request)
     /\ C27_Suffixed(payments[k].or_number, payments[j].or_number)

\* C28: a normal officer (can_promote_officers, not super officer, not
\* superuser) demotes only regular officers: no demote call by such an actor
\* removes the Officer record of a super officer or of a superuser.
C28_NormalOfficer(u) ==
  /\ has_officer_profile(u) /\ officers[u].can_promote_officers
  /\ ~officers[u].is_super_officer /\ ~is_superuser(u)

C28_Protected(t) ==
  has_officer_profile(t) /\ (officers[t].is_super_officer \/ is_superuser(t))

C28_NormalOfficerDemotesRegularOnly ==
  \A p \in Procs : \A u \in OfficerActors, t \in OfficerTargets :
     C28_NormalOfficer(u) /\ C28_Protected(t)
       => ~ENABLED (DemoteOfficer(p, u, t) /\ ~has_officer_profile(t)')

\* C29: no duplicate payment: in every reachable state a student has at most
\* one COMPLETED non-void Payment per fee type.
C29_CompletedPayments(s, f) ==
  {k \in DOMAIN payments :
     /\ payments[k].student = s /\ payments[k].fee_type = f
     /\ payments[k].status = "COMPLETED" /\ ~payments[k].is_void}

C29_NoDuplicatePayment ==
  \A s \in StudentRows, f \in 1..MaxFee :
     Cardinality(C29_CompletedPayments(s, f)) <= 1

\* C30: voiding a Payment re-opens its fee: once the only completed Payment
\* of a student for a fee type is voided, the fee type is again applicable to
\* the student (if it still matches period, tier and year level and no
\* request for it is pending), a new create for it is accepted, the request
\* that was redeemed stays PAID, and the new request can be redeemed.
C30_Reopened(s, f) ==
  /\ \E k \in DOMAIN payments :
        payments[k].student = s /\ payments[k].fee_type = f /\ payments[k].is_void
  /\ C29_CompletedPayments(s, f) = {}

C30_StillMatches(s, f) ==
  /\ get_current_period # 0
  /\ student_profile[s].program_type # NoCourse
  /\ f \in tier_fees(s, "TIER_1") \cup tier_fees(s, "TIER_2")
  /\ ~HasPendingRequest(s, f)

====
